---- MODULE Spec2Model ----
(***************************************************************************)
(* Model of the OTP vault: the authenticated container codec (crypto.rs), *)
(* the secret store with its advisory file lock (crypto.rs, utils.rs),    *)
(* the OTP engine (otp.rs) and the command dispatcher (cli.rs).           *)
(*                                                                         *)
(* Library primitives are modelled by their contracts:                    *)
(*   - Argon2id is an ideal key derivation: the key is the pair           *)
(*     (password, salt), so two keys are equal iff both inputs are;       *)
(*   - AES-256-GCM is a stream cipher (body = msg XOR keystream) followed *)
(*     by an ideal authentication tag over (key, nonce, aad, body);       *)
(*   - serde_json is a cell-by-cell encoding whose length grows with the  *)
(*     value encoded and whose parser rejects trailing cells.             *)
(***************************************************************************)
EXTENDS Integers, Sequences, FiniteSets, TLC

VARIABLES
    file,      \* the container file: [exists, content, mode]
    lock,      \* lock[p]: the flock each process holds on the file
    proc,      \* proc[p]: the local state of process invocation p
    started,   \* number of process invocations started so far
    codec      \* state of one encrypt/tamper/decrypt run of the codec

vars == <<file, lock, proc, started, codec>>

(***************************************************************************)
(* Bounds and finite input domains                                         *)
(***************************************************************************)
MaxLen == 2            \* longest payload handed to encrypt_data in SpecCodec
PayloadBytes == {0, 1, 2, 255}
SaltValues == {0, 1, 2, 3}
NonceValues == {0, 1}
SaltBits == {0, 1}     \* bit positions that a tamper can flip in the salt
NonceBits == {0}
ByteBits == {0, 1, 7}
TagBits == {0, 1}

\* A password as typed: an identity (its bytes) and the character classes
\* validate_password looks at.
StrongPass == [id |-> 1, len |-> 11, upper |-> TRUE, lower |-> TRUE, digit |-> TRUE]
OtherPass == [id |-> 2, len |-> 10, upper |-> TRUE, lower |-> TRUE, digit |-> TRUE]
WeakPass == [id |-> 3, len |-> 4, upper |-> FALSE, lower |-> TRUE, digit |-> FALSE]
Passwords == {StrongPass, OtherPass}

(***************************************************************************)
(* Byte arithmetic                                                         *)
(***************************************************************************)
BitAt(x, i) == (x \div (2 ^ i)) % 2

FlipBit(x, i) == IF BitAt(x, i) = 1 THEN x - 2 ^ i ELSE x + 2 ^ i

RECURSIVE XorFrom(_, _, _)
XorFrom(a, b, i) ==
    IF i > 7 THEN 0
    ELSE ((BitAt(a, i) + BitAt(b, i)) % 2) * (2 ^ i) + XorFrom(a, b, i + 1)

Xor(a, b) == XorFrom(a, b, 0)

(***************************************************************************)
(* crypto.rs: key derivation and the container codec                       *)
(***************************************************************************)
CURRENT_DATA_FORMAT_VERSION == 1

ErrDecrypt == "decrypt failed: wrong password or tampered data"
ErrEmpty == "decrypted data is empty"
ErrVersion == "unsupported data format version"

\* The key buffer [0u8; 32] before hash_password_into fills it, and after
\* secure_erase has overwritten it.
ZeroKey == [pw |-> 0, salt |-> 0, zero |-> TRUE]

secure_erase(data) == ZeroKey

derive_key(password, salt) == [pw |-> password.id, salt |-> salt, zero |-> FALSE]

KeyStream(key, nonce, i) == (key.pw * 89 + key.salt * 57 + nonce * 29 + i * 13 + 7) % 256

AeadTag(key, nonce, aad, body) == [k |-> key, n |-> nonce, a |-> aad, c |-> body, x |-> 0]

\* cipher.encrypt(nonce, Payload { msg, aad })
aead_encrypt(key, nonce, msg, aad) ==
    LET body == [i \in 1..Len(msg) |-> Xor(msg[i], KeyStream(key, nonce, i))]
    IN  [body |-> body, tag |-> AeadTag(key, nonce, aad, body)]

\* cipher.decrypt(nonce, Payload { msg, aad }): the plaintext only when the
\* tag verifies.
aead_decrypt_unverified(key, nonce, ct, aad) ==
    [ok |-> TRUE,
     msg |-> [i \in 1..Len(ct.body) |-> Xor(ct.body[i], KeyStream(key, nonce, i))]]

aead_decrypt(key, nonce, ct, aad) ==
    IF ct.tag = AeadTag(key, nonce, aad, ct.body)
    THEN [ok |-> TRUE,
          msg |-> [i \in 1..Len(ct.body) |-> Xor(ct.body[i], KeyStream(key, nonce, i))]]
    ELSE [ok |-> FALSE, msg |-> <<>>]

NoEnc == [nonce |-> 0, ciphertext |-> [body |-> <<>>, tag |-> AeadTag(ZeroKey, 0, 0, <<>>)], salt |-> 0]

\* encrypt_data, with its two random draws as parameters.  The result carries
\* the content of the local key buffer at the moment the function returns.
\* new_from_slice cannot fail on a 32-byte key and cipher.encrypt fails only
\* on messages longer than the GCM limit, so within the bounds the function
\* returns through its last line.
encrypt_data(data, password, salt, nonce_bytes) ==
    LET key == derive_key(password, salt)
        versioned_data == <<CURRENT_DATA_FORMAT_VERSION>> \o data
        ciphertext == aead_encrypt(key, nonce_bytes, versioned_data, salt)
        erased == secure_erase(key)
    IN  [ok |-> TRUE,
         val |-> [nonce |-> nonce_bytes, ciphertext |-> ciphertext, salt |-> salt],
         key |-> erased]

decrypt_data_keep_version(encrypted, password) ==
    LET key == derive_key(password, encrypted.salt)
        dec == aead_decrypt(key, encrypted.nonce, encrypted.ciphertext, encrypted.salt)
    IN  IF ~dec.ok
        THEN [ok |-> FALSE, err |-> ErrDecrypt, val |-> <<>>, key |-> key]
        ELSE [ok |-> TRUE, err |-> "", val |-> dec.msg, key |-> secure_erase(key)]

decrypt_data_any_version(encrypted, password) ==
    LET key == derive_key(password, encrypted.salt)
        dec == aead_decrypt(key, encrypted.nonce, encrypted.ciphertext, encrypted.salt)
    IN  IF ~dec.ok
        THEN [ok |-> FALSE, err |-> ErrDecrypt, val |-> <<>>, key |-> key]
        ELSE IF dec.msg = <<>>
        THEN [ok |-> FALSE, err |-> ErrEmpty, val |-> <<>>, key |-> secure_erase(key)]
        ELSE [ok |-> TRUE, err |-> "", val |-> Tail(dec.msg), key |-> secure_erase(key)]

\* decrypt_data.  The `?` on cipher.decrypt returns before secure_erase runs,
\* so on that path the key buffer still holds the derived key.
decrypt_data(encrypted, password) ==
    LET key == derive_key(password, encrypted.salt)
        dec == aead_decrypt(key, encrypted.nonce, encrypted.ciphertext, encrypted.salt)
    IN  IF ~dec.ok
        THEN [ok |-> FALSE, err |-> ErrDecrypt, val |-> <<>>, key |-> key]
        ELSE LET erased == secure_erase(key)
                 plaintext == dec.msg
             IN  IF plaintext = <<>>
                 THEN [ok |-> FALSE, err |-> ErrEmpty, val |-> <<>>, key |-> erased]
                 ELSE IF plaintext[1] # CURRENT_DATA_FORMAT_VERSION
                 THEN [ok |-> FALSE, err |-> ErrVersion, val |-> <<>>, key |-> erased]
                 ELSE [ok |-> TRUE, err |-> "", val |-> Tail(plaintext), key |-> erased]

(***************************************************************************)
(* models.rs: secret records and the secret map                            *)
(***************************************************************************)
Names == {1, 2}                 \* service names, each one byte of text
NoName == 0
AuthTypes == {"totp", "hotp", "motp"}
None == -1                      \* Option::None of the counter

\* Seeds as typed by the user (ASCII codes): "JB" is base32, "1!" is not.
GoodSeed == <<74, 66>>
BadSeed == <<49, 33>>
Seeds == {GoodSeed, BadSeed}

Secret(name, secret, auth_type, counter) ==
    [name |-> name, secret |-> secret, auth_type |-> auth_type, counter |-> counter]

EmptyMap == [n \in {} |-> 0]

Insert(secrets, key, value) ==
    [n \in (DOMAIN secrets) \cup {key} |-> IF n = key THEN value ELSE secrets[n]]

Remove(secrets, key) == [n \in (DOMAIN secrets) \ {key} |-> secrets[n]]

Perms(S) ==
    {s \in [1..Cardinality(S) -> S] : \A i, j \in 1..Cardinality(S) : s[i] = s[j] => i = j}

\* The order in which a HashMap with these keys is iterated: any order.
IterOrder(order, keys) == SelectSeq(order, LAMBDA n : n \in keys)

(***************************************************************************)
(* serde_json: the map as payload bytes, the container as file cells       *)
(***************************************************************************)
TypeByte(t) == CASE t = "totp" -> 1 [] t = "hotp" -> 2 [] t = "motp" -> 3

ByteType(b) == CASE b = 1 -> "totp" [] b = 2 -> "hotp" [] b = 3 -> "motp"

CounterByte(c) == IF c = None THEN 0 ELSE c + 1

ByteCounter(b) == IF b = 0 THEN None ELSE b - 1

EntryBytes(key, s) ==
    <<key, s.name, TypeByte(s.auth_type), CounterByte(s.counter), Len(s.secret)>> \o s.secret

RECURSIVE ser_map(_, _)
ser_map(secrets, order) ==
    IF order = <<>> THEN <<>>
    ELSE EntryBytes(Head(order), secrets[Head(order)]) \o ser_map(secrets, Tail(order))

RECURSIVE de_map(_)
de_map(bytes) ==
    IF bytes = <<>> THEN [ok |-> TRUE, val |-> EmptyMap]
    ELSE IF Len(bytes) < 5 \/ Len(bytes) < 5 + bytes[5] \/ bytes[3] \notin {1, 2, 3}
    THEN [ok |-> FALSE, val |-> EmptyMap]
    ELSE LET n == bytes[5]
             s == Secret(bytes[2], SubSeq(bytes, 6, 5 + n), ByteType(bytes[3]),
                         ByteCounter(bytes[4]))
             rest == de_map(SubSeq(bytes, 6 + n, Len(bytes)))
         IN  IF ~rest.ok THEN rest
             ELSE [ok |-> TRUE,
                   val |-> IF bytes[1] \in DOMAIN rest.val THEN rest.val
                           ELSE Insert(rest.val, bytes[1], s)]

NoTag == AeadTag(ZeroKey, 0, 0, <<>>)

Cell(k, v, t) == [k |-> k, v |-> v, t |-> t]

\* {"nonce":[..],"ciphertext":[..],"salt":[..]}: one cell per element, so a
\* longer ciphertext gives a longer file.
ser_enc(enc) ==
    <<Cell("{", 0, NoTag), Cell("nonce", enc.nonce, NoTag)>>
    \o [i \in 1..Len(enc.ciphertext.body) |-> Cell("ct", enc.ciphertext.body[i], NoTag)]
    \o <<Cell("tag", 0, enc.ciphertext.tag), Cell("salt", enc.salt, NoTag), Cell("}", 0, NoTag)>>

\* serde_json::from_slice::<EncryptedData>: the cells must spell one object
\* and nothing may follow its closing brace ("trailing characters").
de_enc(content) ==
    LET n == Len(content)
        tagAt == {j \in 3..n : content[j].k = "tag" /\ \A i \in 3..(j - 1) : content[i].k = "ct"}
    IN  IF n >= 5 /\ content[1].k = "{" /\ content[2].k = "nonce" /\ tagAt # {}
        THEN LET j == CHOOSE x \in tagAt : TRUE
             IN  IF j + 2 = n /\ content[j + 1].k = "salt" /\ content[j + 2].k = "}"
                 THEN [ok |-> TRUE,
                       val |-> [nonce |-> content[2].v,
                                ciphertext |-> [body |-> [i \in 1..(j - 3) |-> content[i + 2].v],
                                                tag |-> content[j].t],
                                salt |-> content[j + 1].v]]
                 ELSE [ok |-> FALSE, val |-> NoEnc]
        ELSE [ok |-> FALSE, val |-> NoEnc]

ErrJson == "serde_json error"
ErrLock == "cannot get the file lock, another instance may be using the file"
ErrOpen == "open failed"

\* load_secrets from the bytes read to its return value.
load_decode(content, password) ==
    LET encrypted == de_enc(content)
    IN  IF ~encrypted.ok THEN [ok |-> FALSE, err |-> ErrJson, val |-> EmptyMap]
        ELSE LET decrypted == decrypt_data(encrypted.val, password)
             IN  IF ~decrypted.ok
                 THEN [ok |-> FALSE, err |-> decrypted.err, val |-> EmptyMap]
                 ELSE LET m == de_map(decrypted.val)
                      IN  IF m.ok THEN [ok |-> TRUE, err |-> "", val |-> m.val]
                          ELSE [ok |-> FALSE, err |-> ErrJson, val |-> EmptyMap]

(***************************************************************************)
(* otp.rs: the OTP engine.  HMAC-SHA1 followed by dynamic truncation is a  *)
(* function of (key, message); a code is identified by that pair.          *)
(***************************************************************************)
ErrBase32 == "invalid base32 encoding"

\* RFC 4648 alphabet: A-Z and 2-7.
Base32Alphabet == (65..90) \cup (50..55)

Base32Value(c) == IF c >= 65 THEN c - 65 ELSE c - 50 + 26

decode_secret(secret) ==
    IF \A i \in 1..Len(secret) : secret[i] \in Base32Alphabet
    THEN [ok |-> TRUE, val |-> [i \in 1..Len(secret) |-> Base32Value(secret[i])]]
    ELSE [ok |-> FALSE, val |-> <<>>]

compute_otp_code(decoded_secret, input_data) ==
    [ok |-> TRUE, err |-> "", val |-> [key |-> decoded_secret, input |-> input_data]]

NoCode == [key |-> <<>>, input |-> <<>>]

\* The clock is read once per code; TimeNow is the wall clock in seconds.
TimeNow == {59}

generate_totp(secret, now) ==
    LET decoded == decode_secret(secret)
    IN  IF ~decoded.ok THEN [ok |-> FALSE, err |-> ErrBase32, val |-> NoCode]
        ELSE compute_otp_code(decoded.val, <<"be64", now \div 30>>)

generate_hotp(secret, counter) ==
    LET decoded == decode_secret(secret)
    IN  IF ~decoded.ok THEN [ok |-> FALSE, err |-> ErrBase32, val |-> NoCode]
        ELSE compute_otp_code(decoded.val, <<"be64", counter>>)

\* MOTP hashes the seed text itself, so it never fails on the seed.
generate_motp(secret, now) ==
    [ok |-> TRUE, err |-> "", val |-> [key |-> secret, input |-> <<"hex", now \div 10>>]]

generate_code(secret, now) ==
    CASE secret.auth_type = "totp" -> generate_totp(secret.secret, now)
      [] secret.auth_type = "hotp" ->
            generate_hotp(secret.secret, IF secret.counter = None THEN 0 ELSE secret.counter)
      [] secret.auth_type = "motp" -> generate_motp(secret.secret, now)

(***************************************************************************)
(* SpecCodec: one container is produced, possibly tampered with, and       *)
(* decrypted.  The container comes from encrypt_data, or from a foreign    *)
(* writer that knows the password and seals an arbitrary plaintext (the    *)
(* way a container of another format version comes to exist).              *)
(***************************************************************************)
RECURSIVE SeqsUpTo(_, _)
SeqsUpTo(S, n) ==
    IF n = 0 THEN {<<>>}
    ELSE LET shorter == SeqsUpTo(S, n - 1)
         IN  shorter \cup {Append(s, b) : s \in {t \in shorter : Len(t) = n - 1}, b \in S}

Payloads == SeqsUpTo(PayloadBytes, MaxLen)

NoRes == [ok |-> FALSE, err |-> "", val |-> <<>>, key |-> ZeroKey]

CodecIdle ==
    [stage |-> "off", origin |-> "", data |-> <<>>, plain |-> <<>>, pw |-> StrongPass,
     enc |-> NoEnc, ekey |-> ZeroKey, tampered |-> "", dpw |-> StrongPass, res |-> NoRes]

InitCodec ==
    /\ file = [exists |-> FALSE, content |-> <<>>, mode |-> "none"]
    /\ lock = <<"none", "none">>
    /\ proc = <<>>
    /\ started = 0
    /\ codec \in {[CodecIdle EXCEPT !.stage = "input", !.data = d, !.pw = w] :
                    d \in Payloads, w \in Passwords}

CodecEncrypt ==
    /\ codec.stage = "input"
    /\ \E salt \in SaltValues, nonce_bytes \in NonceValues :
         LET r == encrypt_data(codec.data, codec.pw, salt, nonce_bytes)
         IN  codec' = [codec EXCEPT !.stage = "sealed", !.origin = "encrypt_data",
                                    !.plain = <<CURRENT_DATA_FORMAT_VERSION>> \o codec.data,
                                    !.enc = r.val, !.ekey = r.key]
    /\ UNCHANGED <<file, lock, proc, started>>

CodecForeign ==
    /\ codec.stage = "input"
    /\ \E salt \in SaltValues, nonce_bytes \in NonceValues :
         codec' = [codec EXCEPT
                     !.stage = "sealed", !.origin = "foreign", !.plain = codec.data,
                     !.enc = [nonce |-> nonce_bytes,
                              ciphertext |-> aead_encrypt(derive_key(codec.pw, salt),
                                                          nonce_bytes, codec.data, salt),
                              salt |-> salt]]
    /\ UNCHANGED <<file, lock, proc, started>>

FlipSalt(enc, b) == [enc EXCEPT !.salt = FlipBit(enc.salt, b)]
FlipNonce(enc, b) == [enc EXCEPT !.nonce = FlipBit(enc.nonce, b)]
FlipBody(enc, i, b) == [enc EXCEPT !.ciphertext.body[i] = FlipBit(enc.ciphertext.body[i], b)]
FlipTag(enc, b) == [enc EXCEPT !.ciphertext.tag.x = FlipBit(enc.ciphertext.tag.x, b)]

SingleBitFlips(enc) ==
    {[where |-> "salt", enc |-> FlipSalt(enc, b)] : b \in SaltBits}
    \cup {[where |-> "nonce", enc |-> FlipNonce(enc, b)] : b \in NonceBits}
    \cup {[where |-> "ciphertext", enc |-> FlipBody(enc, ib[1], ib[2])] :
            ib \in (1..Len(enc.ciphertext.body)) \X ByteBits}
    \cup {[where |-> "ciphertext", enc |-> FlipTag(enc, b)] : b \in TagBits}

CodecTamper ==
    /\ codec.stage = "sealed"
    /\ codec.tampered = ""
    /\ \E f \in SingleBitFlips(codec.enc) :
         codec' = [codec EXCEPT !.tampered = f.where, !.enc = f.enc]
    /\ UNCHANGED <<file, lock, proc, started>>

CodecDecrypt ==
    /\ codec.stage = "sealed"
    /\ \E w \in Passwords :
         codec' = [codec EXCEPT !.stage = "done", !.dpw = w,
                                !.res = decrypt_data(codec.enc, w)]
    /\ UNCHANGED <<file, lock, proc, started>>

NextCodec == CodecEncrypt \/ CodecForeign \/ CodecTamper \/ CodecDecrypt

SpecCodec == InitCodec /\ [][NextCodec]_vars

(***************************************************************************)
(* utils.rs, qrcode.rs: secrets given as an otpauth URL.  A URL is the     *)
(* record of what Url::parse finds in the text: the host (the type), the   *)
(* path without its leading slash (the name) and the query parameters      *)
(* "secret" and "counter".                                                 *)
(***************************************************************************)
NaN == -2                       \* a counter parameter that is not a number

Url(host, path, secret, counter) ==
    [is_url |-> TRUE, scheme |-> "otpauth", host |-> host, path |-> path,
     secret |-> secret, counter |-> counter]

\* A text that does not start with "otpauth://".
NoUrl ==
    [is_url |-> FALSE, scheme |-> "", host |-> "", path |-> NoName, secret |-> <<>>,
     counter |-> None]

ErrUrl == "not a valid otpauth URL"

to_lowercase(str) ==
    CASE str = "HOTP" -> "hotp"
      [] str = "TOTP" -> "totp"
      [] str = "MOTP" -> "motp"
      [] OTHER -> str

parse_otpauth_url_any_counter(url) ==
    LET fail == [ok |-> FALSE, err |-> ErrUrl, val |-> Secret(NoName, <<>>, "totp", None)]
        auth_type == to_lowercase(url.host)
    IN  IF ~url.is_url \/ url.scheme # "otpauth" THEN fail
        ELSE IF url.host = "" THEN fail
        ELSE IF auth_type \notin AuthTypes THEN fail
        ELSE IF url.path = NoName THEN fail
        ELSE IF url.secret = <<>> THEN fail
        ELSE IF url.counter = NaN THEN fail
        ELSE [ok |-> TRUE, err |-> "",
              val |-> Secret(url.path, url.secret, auth_type, url.counter)]

\* parse_otpauth_url.  A query parameter that is absent is <<>> for the
\* secret (an empty one is refused as well) and None for the counter.
parse_otpauth_url(url) ==
    LET fail == [ok |-> FALSE, err |-> ErrUrl, val |-> Secret(NoName, <<>>, "totp", None)]
        auth_type == to_lowercase(url.host)
    IN  IF ~url.is_url \/ url.scheme # "otpauth" THEN fail
        ELSE IF url.host = "" THEN fail
        ELSE IF auth_type \notin AuthTypes THEN fail
        ELSE IF url.path = NoName THEN fail
        ELSE IF url.secret = <<>> THEN fail
        ELSE IF auth_type = "hotp" /\ url.counter \in {None, NaN} THEN fail
        ELSE [ok |-> TRUE, err |-> "",
              val |-> Secret(url.path, url.secret, auth_type,
                             IF auth_type = "hotp" THEN url.counter ELSE None)]

\* The URLs a user gives: an HOTP URL with its counter, a TOTP URL that
\* carries a counter all the same, an HOTP URL without a counter, and a URL
\* of an unknown type.
UrlInputs ==
    {Url("hotp", 1, GoodSeed, 1), Url("TOTP", 2, GoodSeed, 1),
     Url("hotp", 1, GoodSeed, None), Url("steam", 2, GoodSeed, NaN)}

\* An image file: its extension and the text of the QR code in it.
Image(ext, text) == [ext |-> ext, text |-> text]

NoImage == Image("", NoUrl)

Images == {Image("png", Url("hotp", 2, GoodSeed, 0)), Image("png", NoUrl), Image("gif", NoUrl)}

scan_qrcode(image) ==
    IF image.ext \notin {"jpg", "jpeg", "png"} THEN [ok |-> FALSE, val |-> NoUrl]
    ELSE IF ~image.text.is_url THEN [ok |-> FALSE, val |-> NoUrl]
    ELSE [ok |-> TRUE, val |-> image.text]

(***************************************************************************)
(* cli.rs: one process invocation.  A process runs from its command line   *)
(* to its exit; the steps at which it touches the container file (open,    *)
(* flock, read, write, chmod, close) are separate actions, and the code    *)
(* between two such steps belongs to the earlier one.                      *)
(***************************************************************************)
MaxSeqInv == 3                  \* invocations in a sequential behaviour
MaxInv == 2                     \* invocations in an interleaved behaviour
MaxLockInv == 2                 \* invocations in an interleaved behaviour of SpecLock
Procs == {1, 2}
InputPasswords == Passwords \cup {WeakPass}
\* The draws of rand::random for (salt, nonce) in one save.
StoreRandom == {[salt |-> 0, nonce |-> 1], [salt |-> 1, nonce |-> 0]}
\* The secrets a user adds: an HOTP and a MOTP secret with a base32 seed, a
\* TOTP secret whose seed is not base32.
AddInputs == {<<1, GoodSeed, "hotp">>, <<2, BadSeed, "totp">>, <<2, GoodSeed, "motp">>}

ErrPassword == "password does not meet the requirements"

Cmd(kind, name, secret, auth_type, new_name) ==
    [kind |-> kind, name |-> name, secret |-> secret, auth_type |-> auth_type,
     new_name |-> new_name, url |-> NoUrl, image |-> NoImage]

NoCmd == Cmd("", NoName, <<>>, "", NoName)

Commands ==
    {Cmd("version", NoName, <<>>, "", NoName), Cmd("password", NoName, <<>>, "", NoName),
     Cmd("list", NoName, <<>>, "", NoName)}
    \cup {Cmd("delete", n, <<>>, "", NoName) : n \in Names}
    \cup {Cmd("rename", n, <<>>, "", m) : n \in Names, m \in Names \cup {NoName}}
    \cup {Cmd("add", a[1], a[2], a[3], NoName) : a \in AddInputs}
    \cup {Cmd("show", n, <<>>, "", NoName) : n \in Names}

\* What the user types and what the random generator and the hasher of the
\* HashMap yield during one step.
Inputs(pws, confirms, orders) ==
    [pw : pws, confirm : confirms, rnd : StoreRandom, order : orders, now : TimeNow]

DefaultOrder == CHOOSE o \in Perms(Names) : TRUE

NoInput == CHOOSE i \in Inputs({WeakPass}, {FALSE}, {DefaultOrder}) : TRUE

\* The inputs that the code after a load can consume.
ReadInputs(cmd) ==
    IF cmd.kind = "password" THEN Inputs(InputPasswords, BOOLEAN, {DefaultOrder})
    ELSE Inputs({WeakPass}, {FALSE}, Perms(Names))

\* The container file before it is first created.
NoFile == [exists |-> FALSE, content |-> <<>>, mode |-> "none"]

\* The locals of run(), with what the properties need of its history: the
\* map it loaded, the results of its last load and save, the numbers of its
\* loads and saves, and, where a specification records it, the file as the
\* invocation found it (file0).
IdleProc ==
    [pc |-> "idle", cmd |-> NoCmd, has_database |-> FALSE, password |-> WeakPass,
     secrets |-> EmptyMap, encrypted |-> NoEnc, write |-> FALSE, ret |-> "",
     out |-> <<>>, status |-> "", note |-> "", loads |-> 0, saves |-> 0,
     loaded |-> EmptyMap, load_res |-> "", save_res |-> "", overlap |-> FALSE,
     pre |-> <<>>, file0 |-> NoFile]

validate_password(password) ==
    /\ password.len # 0
    /\ password.len >= 8
    /\ password.upper /\ password.lower /\ password.digit

prompt_password(password) == validate_password(password)

prompt_new_password(password1, confirm) == validate_password(password1) /\ confirm

Finish(pr, status, note) == [pr EXCEPT !.pc = "done", !.status = status, !.note = note]

\* save_secrets up to its open_file_with_lock: serialize, encrypt, and the
\* directory check (the directory is writable).
BeginSave(pr, secrets, password, ret, inp, content) ==
    LET data == ser_map(secrets, IterOrder(inp.order, DOMAIN secrets))
        encrypted == encrypt_data(data, password, inp.rnd.salt, inp.rnd.nonce)
    IN  [pr EXCEPT !.pc = "open", !.write = TRUE, !.secrets = secrets,
                   !.password = password, !.encrypted = encrypted.val, !.ret = ret,
                   !.saves = @ + 1, !.save_res = "", !.pre = content]

\* The loop of the listing over the map: codes are printed one by one and the
\* first failing generate_code ends the run (`?`).
RECURSIVE ListScan(_, _, _)
ListScan(secrets, order, now) ==
    IF order = <<>> THEN [ok |-> TRUE, err |-> "", out |-> <<>>]
    ELSE LET secret == secrets[Head(order)]
             code == generate_code(secret, now)
         IN  IF ~code.ok THEN [ok |-> FALSE, err |-> code.err, out |-> <<>>]
             ELSE LET rest == ListScan(secrets, Tail(order), now)
                      line == [name |-> Head(order), secret |-> secret, code |-> code.val]
                  IN  [rest EXCEPT !.out = <<line>> \o @]

BumpsCounter(secret) == secret.auth_type = "hotp" /\ secret.counter # None

Bump(secret) == IF BumpsCounter(secret) THEN [secret EXCEPT !.counter = @ + 1] ELSE secret

\* run() from the return of load_secrets to the next open of the file or to
\* the exit of the process.
AfterLoad(pr0, res, inp, content) ==
    LET pr == [pr0 EXCEPT !.secrets = res.val, !.loaded = res.val,
                          !.load_res = IF res.ok THEN "ok" ELSE res.err]
        cmd == pr0.cmd
        secrets == res.val
    IN  CASE cmd.kind = "password" ->
               IF ~res.ok THEN Finish(pr, "ok", "wrong old password")
               ELSE IF prompt_new_password(inp.pw, inp.confirm)
               THEN BeginSave(pr, secrets, inp.pw, "done", inp, content)
               ELSE Finish(pr, ErrPassword, "")
          [] cmd.kind = "delete" ->
               IF ~res.ok THEN Finish(pr, "ok", "wrong password or corrupt data")
               ELSE IF cmd.name \in DOMAIN secrets
               THEN BeginSave(pr, Remove(secrets, cmd.name), pr.password, "done", inp, content)
               ELSE Finish(pr, "ok", "service not found")
          [] cmd.kind = "rename" ->
               IF ~res.ok THEN Finish(pr, "ok", "wrong password or corrupt data")
               ELSE IF cmd.name \in DOMAIN secrets
               THEN LET updated_secret == [secrets[cmd.name] EXCEPT !.name = cmd.new_name]
                    IN  BeginSave(pr, Insert(Remove(secrets, cmd.name), cmd.new_name,
                                             updated_secret),
                                  pr.password, "done", inp, content)
               ELSE Finish(pr, "ok", "service not found")
          [] cmd.kind = "qrcode" ->
               IF ~res.ok THEN Finish(pr, "ok", "wrong password or corrupt data")
               ELSE LET scanned == scan_qrcode(cmd.image)
                        secret_info == parse_otpauth_url(scanned.val)
                    IN  IF ~scanned.ok THEN Finish(pr, "ok", "scan failed")
                        ELSE IF ~secret_info.ok THEN Finish(pr, "ok", "cannot parse URL")
                        ELSE BeginSave(pr, Insert(secrets, secret_info.val.name, secret_info.val),
                                       pr.password, "done", inp, content)
          [] cmd.kind = "add" /\ cmd.url.is_url ->
               IF ~res.ok THEN Finish(pr, "ok", "wrong password or corrupt data")
               ELSE LET secret_info == parse_otpauth_url(cmd.url)
                    IN  IF ~secret_info.ok THEN Finish(pr, "ok", "cannot parse URL")
                        ELSE BeginSave(pr, Insert(secrets, secret_info.val.name, secret_info.val),
                                       pr.password, "done", inp, content)
          [] cmd.kind = "add" /\ ~cmd.url.is_url ->
               IF ~res.ok THEN Finish(pr, "ok", "wrong password or corrupt data")
               ELSE LET secret == Secret(cmd.name, cmd.secret, cmd.auth_type,
                                         IF cmd.auth_type = "hotp" THEN 0 ELSE None)
                    IN  BeginSave(pr, Insert(secrets, cmd.name, secret), pr.password,
                                  "done", inp, content)
          [] cmd.kind = "show" ->
               IF ~res.ok THEN Finish(pr, "ok", "cannot load data")
               ELSE IF cmd.name \notin DOMAIN secrets THEN Finish(pr, "ok", "service not found")
               ELSE LET secret == secrets[cmd.name]
                        code == generate_code(secret, inp.now)
                        shown == [pr EXCEPT !.out = <<[name |-> cmd.name, secret |-> secret,
                                                      code |-> code.val]>>]
                    IN  IF ~code.ok THEN Finish(pr, code.err, "")
                        ELSE IF BumpsCounter(secret)
                        THEN BeginSave(shown, Insert(secrets, cmd.name, Bump(secret)),
                                       pr.password, "done", inp, content)
                        ELSE Finish(shown, "ok", "")
          [] cmd.kind = "list" ->
               IF ~res.ok THEN Finish(pr, "ok", "cannot load data")
               ELSE IF DOMAIN secrets = {} THEN Finish(pr, "ok", "no secrets stored")
               ELSE LET scan == ListScan(secrets, IterOrder(inp.order, DOMAIN secrets), inp.now)
                        shown == [pr EXCEPT !.out = scan.out]
                        updates == {n \in DOMAIN secrets : BumpsCounter(secrets[n])}
                    IN  IF ~scan.ok THEN Finish(shown, scan.err, "")
                        ELSE IF updates # {}
                        THEN BeginSave(shown, [n \in DOMAIN secrets |-> Bump(secrets[n])],
                                       pr.password, "done", inp, content)
                        ELSE Finish(shown, "ok", "")

\* load_secrets up to its open_file_with_lock.
BeginLoad(pr0, password, inp, f) ==
    LET pr == [pr0 EXCEPT !.password = password, !.loads = @ + 1]
    IN  IF ~f.exists
        THEN AfterLoad(pr, [ok |-> TRUE, err |-> "", val |-> EmptyMap], inp, f.content)
        ELSE [pr EXCEPT !.pc = "open", !.write = FALSE]

\* The caller of save_secrets: init_encrypted_database goes on to load, every
\* other caller ends the run; an error of save_secrets ends the run.
AfterSave(pr0, err, inp, f) ==
    LET pr == [pr0 EXCEPT !.save_res = IF err = "" THEN "ok" ELSE err]
    IN  IF err # "" THEN Finish(pr, err, "")
        ELSE IF pr.ret = "load" THEN BeginLoad(pr, pr.password, inp, f)
        ELSE Finish(pr, "ok", "saved")

InSave(pr) == pr.write /\ pr.pc \in {"open", "flock", "write", "chmod", "close"}

\* Two save_secrets calls are simultaneous when one starts while the other
\* is between its start and its return.
LinkSaves(p, newp) ==
    IF newp.saves > proc[p].saves
    THEN [q \in Procs |->
            IF q = p THEN [newp EXCEPT !.overlap = \E o \in Procs \ {p} : InSave(proc[o])]
            ELSE IF InSave(proc[q]) THEN [proc[q] EXCEPT !.overlap = TRUE]
            ELSE proc[q]]
    ELSE [proc EXCEPT ![p] = newp]

\* run() from the command line to the first open of the file.  file0 is what
\* the invocation records as the file it found.
Launch(p, limit, cmds, file0) ==
    /\ proc[p].pc = "idle"
    /\ started < limit
    /\ started' = started + 1
    /\ \E cmd \in cmds, inp \in Inputs(InputPasswords, BOOLEAN, {DefaultOrder}) :
         LET has_database == file.exists
             pr == [IdleProc EXCEPT !.cmd = cmd, !.has_database = has_database,
                                    !.file0 = file0]
             newp ==
               IF cmd.kind = "version" THEN Finish(pr, "ok", "version")
               ELSE IF cmd.kind = "password"
               THEN IF has_database THEN BeginLoad(pr, inp.pw, inp, file)
                    ELSE IF prompt_new_password(inp.pw, inp.confirm)
                    THEN BeginSave(pr, EmptyMap, inp.pw, "done", inp, file.content)
                    ELSE Finish(pr, ErrPassword, "")
               ELSE IF cmd.kind = "rename" /\ cmd.new_name = NoName
               THEN Finish(pr, "ok", "rename needs -N")
               ELSE IF ~has_database
               THEN \* init_encrypted_database
                    IF prompt_new_password(inp.pw, inp.confirm)
                    THEN BeginSave(pr, EmptyMap, inp.pw, "load", inp, file.content)
                    ELSE Finish(pr, ErrPassword, "")
               ELSE IF prompt_password(inp.pw) THEN BeginLoad(pr, inp.pw, inp, file)
               ELSE Finish(pr, ErrPassword, "")
         IN  proc' = LinkSaves(p, newp)
    /\ UNCHANGED <<file, lock, codec>>

(***************************************************************************)
(* utils.rs: open_file_with_lock, and the file steps of load and save      *)
(***************************************************************************)
\* OpenOptions::new().read(!write).write(write).create(write).open(path):
\* no truncate, no append.
Open(p) ==
    /\ proc[p].pc = "open"
    /\ LET inp == NoInput
       IN
         IF proc[p].write
         THEN /\ file' = IF file.exists THEN file
                         ELSE [exists |-> TRUE, content |-> <<>>, mode |-> "umask"]
              /\ proc' = [proc EXCEPT ![p].pc = "flock"]
         ELSE /\ file' = file
              /\ proc' = IF file.exists THEN [proc EXCEPT ![p].pc = "flock"]
                         ELSE LinkSaves(p, AfterLoad(proc[p],
                                  [ok |-> FALSE, err |-> ErrOpen, val |-> EmptyMap],
                                  inp, file.content))
    /\ UNCHANGED <<lock, started, codec>>

\* flock(fd, lock_type | LOCK_NB) as the kernel grants it.
FlockGranted(p, lock_type) ==
    \A q \in Procs \ {p} : lock[q] = "none" \/ (lock_type = "sh" /\ lock[q] = "sh")

FlockUnchecked(p) ==
    /\ proc[p].pc = "flock"
    /\ LET lock_type == IF proc[p].write THEN "ex" ELSE "sh"
       IN  /\ lock' = IF FlockGranted(p, lock_type) THEN [lock EXCEPT ![p] = lock_type]
                      ELSE lock
           /\ proc' = [proc EXCEPT ![p].pc = IF proc[p].write THEN "write" ELSE "read"]
    /\ UNCHANGED <<file, started, codec>>

\* The flock call of open_file_with_lock and the check of its result.
Flock(p) ==
    /\ proc[p].pc = "flock"
    /\ LET inp == NoInput
       IN
         LET lock_type == IF proc[p].write THEN "ex" ELSE "sh"
         IN  IF FlockGranted(p, lock_type)
             THEN /\ lock' = [lock EXCEPT ![p] = lock_type]
                  /\ proc' = [proc EXCEPT ![p].pc = IF proc[p].write THEN "write" ELSE "read"]
             ELSE /\ lock' = lock
                  /\ proc' = LinkSaves(p,
                       IF proc[p].write THEN AfterSave(proc[p], ErrLock, inp, file)
                       ELSE AfterLoad(proc[p], [ok |-> FALSE, err |-> ErrLock, val |-> EmptyMap],
                                      inp, file.content))
    /\ UNCHANGED <<file, started, codec>>

\* A load_secrets that empties a file it cannot decode.
ReadDiscarding(p) ==
    /\ proc[p].pc = "read"
    /\ \E inp \in ReadInputs(proc[p].cmd) :
         proc' = LinkSaves(p, AfterLoad(proc[p], load_decode(file.content, proc[p].password),
                                        inp, file.content))
    /\ lock' = [lock EXCEPT ![p] = "none"]
    /\ file' = IF load_decode(file.content, proc[p].password).ok THEN file
               ELSE [file EXCEPT !.content = <<>>]
    /\ UNCHANGED <<started, codec>>

\* load_secrets: read_to_end, decode, return (the file is closed and its
\* lock released), then the caller.
Read(p) ==
    /\ proc[p].pc = "read"
    /\ \E inp \in ReadInputs(proc[p].cmd) :
         proc' = LinkSaves(p, AfterLoad(proc[p], load_decode(file.content, proc[p].password),
                                        inp, file.content))
    /\ lock' = [lock EXCEPT ![p] = "none"]
    /\ UNCHANGED <<file, started, codec>>

\* A write of `bytes` at offset 0 of a file that was not truncated.
WriteAt0(old, bytes) == bytes \o SubSeq(old, Len(bytes) + 1, Len(old))

\* save_secrets: file.write_all(&serde_json::to_vec(&encrypted)?)
Write(p) ==
    /\ proc[p].pc = "write"
    /\ file' = [file EXCEPT !.content = WriteAt0(@, ser_enc(proc[p].encrypted))]
    /\ proc' = [proc EXCEPT ![p].pc = "chmod"]
    /\ UNCHANGED <<lock, started, codec>>

\* set_file_permissions(&path)
Chmod(p) ==
    /\ proc[p].pc = "chmod"
    /\ file' = [file EXCEPT !.mode = "0600"]
    /\ proc' = [proc EXCEPT ![p].pc = "close"]
    /\ UNCHANGED <<lock, started, codec>>

\* save_secrets returns Ok: the file is closed and its lock released, then
\* the caller.
Close(p) ==
    /\ proc[p].pc = "close"
    /\ proc' = LinkSaves(p, AfterSave(proc[p], "", NoInput, file))
    /\ lock' = [lock EXCEPT ![p] = "none"]
    /\ UNCHANGED <<file, started, codec>>

\* The process exits.
Exit(p) ==
    /\ proc[p].pc = "done"
    /\ proc' = [proc EXCEPT ![p] = IdleProc]
    /\ UNCHANGED <<file, lock, started, codec>>

Init ==
    /\ file = NoFile
    /\ lock = [p \in Procs |-> "none"]
    /\ proc = [p \in Procs |-> IdleProc]
    /\ started = 0
    /\ codec = CodecIdle

Start(p) == Launch(p, MaxInv, Commands, NoFile)

StartSeq(p) == Launch(p, MaxSeqInv, Commands, NoFile)

\* The commands that set or change the password, and add and show one HOTP
\* secret: between them every way a run loads and saves.
LockCommands ==
    {c \in Commands : c.kind = "password" \/ (c.kind \in {"add", "show"} /\ c.name = 1)}

StartLock(p) == Launch(p, MaxLockInv, LockCommands, NoFile)

FileStep(p) ==
    \/ Open(p)
    \/ Flock(p)
    \/ Read(p)
    \/ Write(p)
    \/ Chmod(p)
    \/ Close(p)
    \/ Exit(p)

\* Invocations of any number of processes, interleaved.
Next == \E p \in Procs : Start(p) \/ FileStep(p)

Spec == Init /\ [][Next]_vars

\* Invocations one after the other.
NextSeq == StartSeq(1) \/ FileStep(1)

SpecSeq == Init /\ [][NextSeq]_vars

\* Interleaved invocations of the commands in LockCommands.
NextLock == \E p \in Procs : StartLock(p) \/ FileStep(p)

SpecLock == Init /\ [][NextLock]_vars

(***************************************************************************)
(* SpecVault: invocations one after the other of every command, the ones   *)
(* that take an otpauth URL or a QR image included, on a file that someone *)
(* else may alter between two invocations.                                 *)
(***************************************************************************)
MaxVaultInv == 3                \* invocations in a behaviour of SpecVault

\* Every command once in each of its forms: version, password, listing,
\* delete of either name, rename with and without -N, add and show of name 1,
\* add by URL, add by QR image.
VaultCommands ==
    {c \in Commands :
        \/ c.kind \in {"version", "password", "list", "delete"}
        \/ c.kind \in {"add", "show"} /\ c.name = 1
        \/ c.kind = "rename" /\ c.name = 1 /\ c.new_name # 1}
    \cup {[Cmd("add", NoName, <<>>, "", NoName) EXCEPT !.url = u] : u \in UrlInputs}
    \cup {[Cmd("qrcode", NoName, <<>>, "", NoName) EXCEPT !.image = i] : i \in Images}

StartVault(p) == Launch(p, MaxVaultInv, VaultCommands, file)

\* What an intact container becomes in the hands of someone who alters the
\* stored file: one bit of the salt flipped, or, by someone who knows the
\* password, a container of an empty plaintext, of another format version,
\* or one whose payload is not a map.
Tampers(enc, password) ==
    LET seal(msg) == [enc EXCEPT !.ciphertext =
                        aead_encrypt(derive_key(password, enc.salt), enc.nonce, msg, enc.salt)]
    IN  {FlipSalt(enc, 0), seal(<<>>),
         seal(<<CURRENT_DATA_FORMAT_VERSION + 1>>),
         seal(<<CURRENT_DATA_FORMAT_VERSION, 1>>)}

TamperFile ==
    /\ \A p \in Procs : proc[p].pc = "idle"
    /\ started < MaxVaultInv
    /\ file.exists
    /\ \E password \in Passwords :
         /\ load_decode(file.content, password).ok
         /\ \E enc \in Tampers(de_enc(file.content).val, password) :
              file' = [file EXCEPT !.content = ser_enc(enc)]
    /\ UNCHANGED <<lock, proc, started, codec>>

NextVault == StartVault(1) \/ FileStep(1) \/ TamperFile

SpecVault == Init /\ [][NextVault]_vars

(***************************************************************************)
(* otp.rs: the dynamic truncation of compute_otp_code, from the HMAC-SHA1  *)
(* digest to the text of the code.  SpecTrunc applies it to digests whose  *)
(* last byte takes every low nibble and whose other bytes follow a few     *)
(* patterns (all zeros, all ones, a ramp, top bits only).                  *)
(***************************************************************************)
DigestLen == 20                 \* bytes of an HMAC-SHA1 digest

\* result[i] of a slice: a panic when i is not inside it.
InSlice(result, i) == 0 <= i /\ i < Len(result)

At(result, i) == IF InSlice(result, i) THEN result[i + 1] ELSE 0

RECURSIVE Decimal(_)
Decimal(n) == IF n < 10 THEN <<n>> ELSE Decimal(n \div 10) \o <<n % 10>>

\* format!("{:06}", n): the decimal digits of n, zero-padded on the left to
\* a width of at least 6.
format_06(n) ==
    LET digits == Decimal(n)
    IN  IF Len(digits) >= 6 THEN digits
        ELSE [i \in 1..(6 - Len(digits)) |-> 0] \o digits

\* A u32 given by its four bytes, most significant first, modulo m (m below
\* 2^23, so that no intermediate value leaves the 32-bit integers).
U32Mod(bytes, m) ==
    LET r1 == bytes[1] % m
        r2 == (r1 * 256 + bytes[2]) % m
        r3 == (r2 * 256 + bytes[3]) % m
    IN  (r3 * 256 + bytes[4]) % m

dynamic_truncation_unmasked(result) ==
    LET offset == At(result, 19) % 16
        code == <<At(result, offset), At(result, offset + 1),
                  At(result, offset + 2), At(result, offset + 3)>>
    IN  [panic |-> ~(InSlice(result, 19) /\ InSlice(result, offset + 3)),
         offset |-> offset, code |-> code, text |-> format_06(U32Mod(code, 1000000))]

\* compute_otp_code from `let offset` on.  The u32 `code` is kept as its four
\* bytes, most significant first: the four fields that are or-ed together
\* are the four bytes of the u32.
dynamic_truncation(result) ==
    LET offset == At(result, 19) % 16
        code == <<At(result, offset) % 128, At(result, offset + 1),
                  At(result, offset + 2), At(result, offset + 3)>>
    IN  [panic |-> ~(InSlice(result, 19) /\ InSlice(result, offset + 3)),
         offset |-> offset, code |-> code, text |-> format_06(U32Mod(code, 1000000))]

LastBytes == {n + 16 * h : n \in 0..15, h \in {0, 15}}

BytePatterns ==
    {[i \in 1..(DigestLen - 1) |-> 0], [i \in 1..(DigestLen - 1) |-> 255],
     [i \in 1..(DigestLen - 1) |-> (i * 13 + 7) % 256],
     [i \in 1..(DigestLen - 1) |-> IF i % 4 = 0 THEN 128 ELSE 0],
     [i \in 1..(DigestLen - 1) |-> IF i % 2 = 0 THEN 15 ELSE 66]}

Digests == {pattern \o <<last>> : pattern \in BytePatterns, last \in LastBytes}

NoTrunc == [panic |-> FALSE, offset |-> 0, code |-> <<0, 0, 0, 0>>, text |-> <<>>]

InitTrunc ==
    /\ file = NoFile
    /\ lock = <<"none", "none">>
    /\ proc = <<>>
    /\ started = 0
    /\ codec \in {[stage |-> "digest", result |-> d, out |-> NoTrunc] : d \in Digests}

Truncate ==
    /\ codec.stage = "digest"
    /\ codec' = [codec EXCEPT !.stage = "code", !.out = dynamic_truncation(codec.result)]
    /\ UNCHANGED <<file, lock, proc, started>>

NextTrunc == Truncate

SpecTrunc == InitTrunc /\ [][NextTrunc]_vars

(***************************************************************************)
(* Properties of the container codec (SpecCodec)                           *)
(***************************************************************************)
CodecDone == codec.stage = "done"

FromEncrypt == codec.origin = "encrypt_data"

\* The plaintext that the AEAD layer of the container holds under password w.
SealedPlaintext(enc, w) ==
    aead_decrypt(derive_key(w, enc.salt), enc.nonce, enc.ciphertext, enc.salt)

RoundTripCase ==
    CodecDone /\ FromEncrypt /\ codec.tampered = "" /\ codec.dpw = codec.pw

\* C1: decrypting the container that encrypt_data made of payload P under
\* password W, with W, succeeds and returns exactly P; the sealed plaintext
\* is P behind the one-byte version tag, and the tag is not part of the result.
C1_RoundTrip ==
    RoundTripCase =>
        /\ codec.res.ok
        /\ codec.res.val = codec.data
        /\ LET sealed == SealedPlaintext(codec.enc, codec.pw)
           IN  sealed.ok /\ sealed.msg = <<CURRENT_DATA_FORMAT_VERSION>> \o codec.data

C1_Witness == RoundTripCase /\ Len(codec.data) = MaxLen /\ codec.res.ok

TamperCase ==
    CodecDone /\ FromEncrypt /\ (codec.tampered # "" \/ codec.dpw.id # codec.pw.id)

\* C2: a container of encrypt_data with one bit flipped in ciphertext, nonce
\* or salt, or decrypted with another password, fails with the generic
\* authentication error and yields no plaintext.
C2_TamperDetected ==
    TamperCase => ~codec.res.ok /\ codec.res.err = ErrDecrypt /\ codec.res.val = <<>>

C2_Witness ==
    TamperCase /\ codec.tampered = "ciphertext" /\ codec.dpw = codec.pw /\ ~codec.res.ok

FormatCase ==
    /\ CodecDone
    /\ codec.tampered = ""
    /\ codec.dpw = codec.pw
    /\ (codec.plain = <<>> \/ codec.plain[1] # CURRENT_DATA_FORMAT_VERSION)

\* C3 as stated: an authentic container whose plaintext is empty or starts
\* with another version byte fails with one and the same unsupported-format
\* outcome, distinct from the authentication failure.
C3_SingleFormatError ==
    FormatCase =>
        ~codec.res.ok /\ codec.res.val = <<>> /\ codec.res.err = ErrVersion
        /\ codec.res.err # ErrDecrypt

\* C3 amended: such a container yields no payload and fails with an error
\* distinct from the authentication failure: the empty-data error when the
\* plaintext is empty, the unsupported-version error when its first byte is
\* not the supported version.
C3_FormatGuard ==
    FormatCase =>
        /\ ~codec.res.ok
        /\ codec.res.val = <<>>
        /\ codec.res.err # ErrDecrypt
        /\ codec.res.err = IF codec.plain = <<>> THEN ErrEmpty ELSE ErrVersion

C3_Witness ==
    FormatCase /\ Len(codec.plain) = MaxLen /\ codec.res.err = ErrVersion

\* C4: when encrypt_data or decrypt_data has returned, on whatever path, the
\* key buffer holds zeros.
C4_KeyScrubbed ==
    /\ (codec.stage \in {"sealed", "done"} /\ FromEncrypt => codec.ekey = ZeroKey)
    /\ (CodecDone => codec.res.key = ZeroKey)

(***************************************************************************)
(* Properties of the secret store and of the commands                      *)
(***************************************************************************)
Stored(password) == load_decode(file.content, password)

\* C5: when save_secrets(map, W) has written the file and still holds its
\* lock, the file is exactly the new serialized container, whatever it held
\* before, and load_secrets(W) on it returns map.
C5_FullOverwrite ==
    \A p \in Procs :
        proc[p].pc = "close" =>
            /\ file.content = ser_enc(proc[p].encrypted)
            /\ Stored(proc[p].password).ok
            /\ Stored(proc[p].password).val = proc[p].secrets

BothSavesReturned ==
    \A p \in Procs : proc[p].pc = "done" /\ proc[p].overlap /\ proc[p].save_res # ""

\* C6: when two simultaneous save_secrets calls have returned, the file is the
\* complete, loadable container written by one call that succeeded, or is
\* untouched when both failed: never a mix of two writes, a part of one, or
\* a newly created empty file.
C6_SimultaneousSaves ==
    BothSavesReturned =>
        LET won == {p \in Procs : proc[p].save_res = "ok"}
        IN  /\ won # {} =>
                 \E p \in won :
                     /\ file.content = ser_enc(proc[p].encrypted)
                     /\ Stored(proc[p].password).ok
            /\ won = {} => \A p \in Procs : file.content = proc[p].pre
            /\ file.exists => de_enc(file.content).ok

ShownHotp(p) ==
    {i \in 1..Len(proc[p].out) : BumpsCounter(proc[p].out[i].secret)}

\* C7: every run that displays a code for an HOTP secret stored with counter c
\* displays generate_hotp(seed, c) and leaves the stored counter at c + 1.
C7_HotpCounterPersisted ==
    \A p \in Procs :
        proc[p].pc = "done" /\ proc[p].cmd.kind \in {"show", "list"} =>
            \A i \in ShownHotp(p) :
                LET line == proc[p].out[i]
                    reload == Stored(proc[p].password)
                IN  /\ line.code = generate_hotp(line.secret.secret, line.secret.counter).val
                    /\ reload.ok
                    /\ line.name \in DOMAIN reload.val
                    /\ reload.val[line.name].counter = line.secret.counter + 1

\* C8: in the listing, a secret whose code cannot be generated does not keep
\* the other secrets from being displayed, nor the counters of the displayed
\* HOTP secrets from being incremented and saved.
C8_ListingIsolation ==
    \A p \in Procs :
        proc[p].pc = "done" /\ proc[p].cmd.kind = "list" /\ proc[p].load_res = "ok" =>
            \A n \in DOMAIN proc[p].loaded :
                LET secret == proc[p].loaded[n]
                    reload == Stored(proc[p].password)
                IN  \A now \in TimeNow :
                      generate_code(secret, now).ok =>
                        /\ \E i \in 1..Len(proc[p].out) : proc[p].out[i].name = n
                        /\ BumpsCounter(secret) =>
                             /\ reload.ok
                             /\ n \in DOMAIN reload.val
                             /\ reload.val[n].counter = secret.counter + 1

Added(p) == proc[p].pc = "done" /\ proc[p].cmd.kind = "add" /\ proc[p].note = "saved"

\* C9: when two invocations that add different names both report success,
\* the container holds both names.
C9_NoLostUpdate ==
    \A p, q \in Procs :
        Added(p) /\ Added(q) /\ proc[p].cmd.name # proc[q].cmd.name =>
            LET reload == Stored(proc[p].password)
            IN  reload.ok /\ {proc[p].cmd.name, proc[q].cmd.name} \subseteq DOMAIN reload.val

\* The lock that each step of load_secrets and save_secrets runs under.
LockInv ==
    /\ \A p \in Procs : proc[p].pc = "read" => lock[p] = "sh"
    /\ \A p \in Procs : proc[p].pc \in {"write", "chmod", "close"} => lock[p] = "ex"
    /\ \A p, q \in Procs : p # q /\ lock[p] = "ex" => lock[q] = "none"
    /\ \A p \in Procs : proc[p].pc = "flock" => ENABLED Flock(p)

\* A step of a process whose flock is refused.
FailFast ==
    \A p \in Procs :
        (/\ proc[p].pc = "flock"
         /\ ~FlockGranted(p, IF proc[p].write THEN "ex" ELSE "sh")
         /\ proc'[p].pc # proc[p].pc)
        => /\ file' = file
           /\ lock' = lock
           /\ lock[p] = "none"
           /\ proc'[p].pc = "done"
           /\ IF proc[p].write
              THEN proc'[p].save_res = ErrLock /\ proc'[p].loaded = proc[p].loaded
              ELSE proc'[p].load_res = ErrLock /\ proc'[p].loaded = EmptyMap

\* C10: load_secrets reads under the shared lock and save_secrets writes
\* under the exclusive lock, held until the file is closed; the exclusive lock
\* excludes every other lock; and an operation whose lock is refused does not
\* wait: it fails with the concurrent-access error, the file as it was.
C10_LockDiscipline == []LockInv /\ [][FailFast]_vars

C10_Witness ==
    \E p, q \in Procs :
        /\ lock[q] = "ex"
        /\ proc[p].pc = "done"
        /\ proc[p].load_res = ErrLock

(***************************************************************************)
(* Properties of the vault under every command (SpecVault)                 *)
(***************************************************************************)
CounterRule(secrets) ==
    \A n \in DOMAIN secrets :
        (secrets[n].counter # None) <=> (secrets[n].auth_type = "hotp")

\* C11: in every state reached from the empty vault by the commands, every
\* secret record, in the stored container and in the map of a running
\* invocation, has a counter if and only if its type is HOTP.
C11_CounterIffHotp ==
    /\ \A password \in Passwords :
         Stored(password).ok => CounterRule(Stored(password).val)
    /\ \A p \in Procs : CounterRule(proc[p].secrets) /\ CounterRule(proc[p].loaded)

C11_Witness ==
    \E password \in Passwords :
        LET stored == Stored(password)
        IN  /\ stored.ok
            /\ DOMAIN stored.val = {1, 2}
            /\ stored.val[1].auth_type = "hotp" /\ stored.val[1].counter = 1
            /\ stored.val[2].auth_type = "totp" /\ stored.val[2].counter = None
            /\ proc[1].pc = "done" /\ proc[1].cmd.url = Url("TOTP", 2, GoodSeed, 1)

DeleteDone(p) ==
    proc[p].pc = "done" /\ proc[p].cmd.kind = "delete" /\ proc[p].load_res = "ok"

\* C12: a delete of a name that is not in the loaded map performs no save on
\* an existing container, which stays as the invocation found it, and the
\* stored map is the map before; a delete of a name that is in the map stores
\* the map without that entry, every other entry as it was.
C12_DeleteFrame ==
    \A p \in Procs :
        DeleteDone(p) =>
            LET before == proc[p].loaded
                after == Stored(proc[p].password)
            IN  IF proc[p].cmd.name \notin DOMAIN before
                THEN /\ proc[p].has_database => proc[p].saves = 0 /\ file = proc[p].file0
                     /\ after.ok
                     /\ after.val = before
                ELSE /\ after.ok
                     /\ after.val = Remove(before, proc[p].cmd.name)

LoadFailures == {ErrDecrypt, ErrEmpty, ErrVersion, ErrJson}

C14_OneLoadOneSave ==
    \A p \in Procs : proc[p].loads <= 1 /\ proc[p].saves <= 1

(***************************************************************************)
(* Properties of the dynamic truncation (SpecTrunc)                        *)
(***************************************************************************)
RECURSIVE DecimalValue(_)
DecimalValue(digits) ==
    IF digits = <<>> THEN 0
    ELSE DecimalValue(SubSeq(digits, 1, Len(digits) - 1)) * 10 + digits[Len(digits)]

\* C15: for every 20-byte digest the offset is the low nibble of byte 19 and
\* lies in 0..15, the four bytes at offset..offset+3 are inside the digest,
\* the value is those bytes big-endian with the top bit of the first cleared
\* and is below 2^31, and the code is that value modulo 10^6 as exactly six
\* decimal digits, zeros in front.
C15_DynamicTruncation ==
    codec.stage = "code" =>
        LET result == codec.result
            out == codec.out
            o == out.offset
        IN  /\ Len(result) = DigestLen
            /\ ~out.panic
            /\ o = result[DigestLen] % 16
            /\ o \in 0..15
            /\ o + 3 <= DigestLen - 1
            /\ out.code[1] < 128
            /\ out.code = <<result[o + 1] % 128, result[o + 2], result[o + 3], result[o + 4]>>
            /\ Len(out.text) = 6
            /\ \A i \in 1..6 : out.text[i] \in 0..9
            /\ DecimalValue(out.text)
                 = (out.code[1] * 16777216 + out.code[2] * 65536 + out.code[3] * 256
                    + out.code[4]) % 1000000

C15_Witness ==
    /\ codec.stage = "code"
    /\ codec.out.offset = 15
    /\ codec.result[16] = 255
    /\ codec.out.code = <<127, 255, 255, 255>>
    /\ codec.out.text = <<4, 8, 3, 6, 4, 7>>

====
